---- MODULE Spec2Model ----
(***************************************************************************)
(* Student onboarding, mirror reconciliation, relationship backfill and    *)
(* recommendations of the GraphDB-Neo4j service.                           *)
(*                                                                         *)
(* The Neo4j store is a sequence of Student nodes in creation order (a     *)
(* node's position is its internal identity; no uniqueness constraint is   *)
(* ever declared, so two nodes may carry the same id property) and a       *)
(* sequence of relationships between node positions.  students.json is the *)
(* mirror.  Every session.run is one auto-commit transaction, hence one    *)
(* atomic step; a handler is the sequence of its session.run / file steps. *)
(*                                                                         *)
(* An optional value (a property that may be null, a JSON key that may be  *)
(* absent) is None == << >> or Some(v) == <<v>>.  A text is a tuple of     *)
(* one-character strings.                                                  *)
(***************************************************************************)
EXTENDS Integers, Sequences, FiniteSets, TLC

VARIABLES
    nodes,      \* the Student nodes of the store, in creation order
    edges,      \* the relationships of the store, in creation order
    mirror,     \* students.json: [state: missing | corrupt | ok, students]
    pc,         \* where each running call stands
    arg,        \* save_student: the StudentCreate being onboarded
    next_id,    \* save_student: the local next_id
    students,   \* _save_to_json / _sync_json_to_neo4j: the list read from the file
    k,          \* _sync_json_to_neo4j: position of the for loop in students
    flags,      \* run_all: the create_* arguments
    returned,   \* the ids save_student has returned, in order of return
    calls,      \* how many calls of each operation have been started
    raised,     \* run_all: the kinds whose create_* raised during the run
    student_id, \* recommend_people: the id asked for
    current_record,  \* recommend_people: the record of the subject, when found
    recommendations, \* recommend_people: what the last call returned
    student,    \* get_student_by_id: what the last call returned
    store_failed     \* the readers whose call met an exception of the store

\* The state of recommend_people and get_student_by_id.
recState == <<student_id, current_record, recommendations, student, store_failed>>

vars == <<nodes, edges, mirror, pc, arg, next_id, students, k, flags, returned, calls,
          raised, recState>>

\* ---------------------------------------------------------------- bounds

\* How many calls (of all operations together) arrive in one run of the model.
MaxCalls == 3

\* ---------------------------------------------------------------- values

None == << >>
Some(v) == <<v>>

Range(s) == {s[i] : i \in DOMAIN s}

OnbProcs == {"o1", "o2"}
SyncProcs == {"s1"}
BackfillProcs == {"b1"}
RecProcs == {"r1"}
GetProcs == {"g1"}
ReaderProcs == RecProcs \cup GetProcs
Procs == OnbProcs \cup SyncProcs \cup BackfillProcs \cup ReaderProcs

\* The process that imports main.py and runs the application.
MainProcs == {"main"}

\* StudentCreate: every field is required and is a str (interests a list of str).
StudentCreate(name, address, college, board, stream, interests) ==
    [name |-> name, address |-> address, college |-> college,
     board |-> board, stream |-> stream, interests |-> interests]

StA == StudentCreate(<<"a">>, <<"k">>, <<"x">>, <<"n">>, <<"s">>, << <<"m">>, <<"c">> >>)
StB == StudentCreate(<<"b">>, <<"p">>, <<"x">>, <<"n">>, <<"t">>, << <<"r">>, <<"m">> >>)
Students == {StA, StB}
NoStudent == StudentCreate(<< >>, << >>, << >>, << >>, << >>, << >>)

\* The dictionary _save_to_json builds for a student: every key present.
student_data(id, st) ==
    [id |-> Some(id), name |-> Some(st.name), address |-> Some(st.address),
     college |-> Some(st.college), board |-> Some(st.board),
     stream |-> Some(st.stream), interests |-> Some(st.interests)]

\* The node save_student creates.
NewStudentNode(id, st) ==
    [id |-> Some(id), name |-> Some(st.name), address |-> Some(st.address),
     college |-> Some(st.college), board |-> Some(st.board),
     stream |-> Some(st.stream), interests |-> st.interests]

\* NodeOfRecord as it would be with the college line left out of the CREATE.
NodeOfRecordNoCollege(r) ==
    [id |-> r.id, name |-> r.name, address |-> r.address, college |-> None,
     board |-> r.board, stream |-> r.stream,
     interests |-> IF r.interests = None THEN << >> ELSE r.interests[1]]

\* The node _sync_json_to_neo4j creates from a mirror record: student_data.get(key)
\* is None for an absent key (a null property is not stored), and interests
\* defaults to [].
NodeOfRecord(r) ==
    [id |-> r.id, name |-> r.name, address |-> r.address, college |-> r.college,
     board |-> r.board, stream |-> r.stream,
     interests |-> IF r.interests = None THEN << >> ELSE r.interests[1]]

\* ---------------------------------------------------------------- the store

\* Cypher's a = b on properties: null when either side is null, so never true.
CypherEq(x, y) == x # None /\ y # None /\ x = y

\* IdLess as it would be with a.id <> b.id.
IdDiffer(x, y) == x # None /\ y # None /\ x[1] # y[1]

\* Cypher's a.id < b.id: null (the row is dropped) when either id is null.
IdLess(x, y) == x # None /\ y # None /\ x[1] < y[1]

\* MaxId as it would be with COUNT(s) in place of MAX(s.id).
MaxIdByCount(ns) == Len(ns)

\* MATCH (s:Student) RETURN MAX(s.id): null ids are ignored; then `or 0`.
MaxId(ns) ==
    LET ids == {ns[i].id[1] : i \in {j \in DOMAIN ns : ns[j].id # None}}
    IN  IF ids = {} THEN 0 ELSE CHOOSE m \in ids : \A x \in ids : x <= m

\* MATCH (s:Student {id: $id}) RETURN s.id ... result.single(): a record or None.
StudentExists(ns, id) == \E i \in DOMAIN ns : CypherEq(ns[i].id, id)

\* CreateStudent as it would be with MERGE (s:Student {id: $id}) SET s = {...}:
\* the node with this id is overwritten.
UpsertStudent(ns, n) ==
    IF \E i \in DOMAIN ns : CypherEq(ns[i].id, n.id)
    THEN [i \in DOMAIN ns |-> IF CypherEq(ns[i].id, n.id) THEN n ELSE ns[i]]
    ELSE Append(ns, n)

\* CreateStudent as it would be with MERGE (s:Student {name: $name}) SET s = {...}:
\* the node with this name is overwritten.
MergeStudentByName(ns, n) ==
    IF \E i \in DOMAIN ns : CypherEq(ns[i].name, n.name)
    THEN [i \in DOMAIN ns |-> IF CypherEq(ns[i].name, n.name) THEN n ELSE ns[i]]
    ELSE Append(ns, n)

\* CREATE (s:Student {...}): always a new node.
CreateStudent(ns, n) == Append(ns, n)

\* ---------------------------------------------------------------- the mirror

MirrorRecord(id, name, address, college, board, stream, interests) ==
    [id |-> id, name |-> name, address |-> address, college |-> college,
     board |-> board, stream |-> stream, interests |-> interests]

\* Records written by hand into students.json.
RecD2 == MirrorRecord(Some(2), Some(<<"d">>), Some(<<"k">>), Some(<<"x">>),
                      Some(<<"q">>), Some(<<"s">>), Some(<< <<"m">> >>))
RecE1 == MirrorRecord(Some(1), Some(<<"e">>), Some(<<"k">>), Some(<<"y">>),
                      Some(<<"n">>), None, Some(<< <<"c">> >>))
RecF1 == MirrorRecord(Some(1), Some(<<"f">>), None, Some(<<"x">>),
                      Some(<<"q">>), Some(<<"t">>), None)
RecNoId == MirrorRecord(None, Some(<<"g">>), Some(<<"k">>), None, None, None, None)
RecNoName3 == MirrorRecord(Some(3), None, None, Some(<<"x">>), None, None, Some(<< >>))

MirrorFile(state, recs) == [state |-> state, students |-> recs]

\* The store a process finds at start-up: empty, or left by an earlier run.
EmptyStore == << >>
EarlierStore == <<NewStudentNode(1, StA)>>

\* What the service finds when it starts: the store and students.json (absent,
\* unparsable, or edited by hand).
InitStates ==
    { <<EmptyStore, MirrorFile("missing", << >>)>>,
      <<EarlierStore, MirrorFile("corrupt", << >>)>>,
      <<EmptyStore, MirrorFile("ok", <<RecD2, RecE1>>)>>,
      <<EarlierStore, MirrorFile("ok", <<RecD2, RecE1>>)>>,
      <<EmptyStore, MirrorFile("ok", <<RecE1, RecF1>>)>>,
      <<EmptyStore, MirrorFile("ok", <<RecNoId, RecNoName3>>)>>,
      <<EarlierStore, MirrorFile("ok", <<RecNoId, RecNoName3>>)>> }

\* _save_to_json, lines 72-78: the list read from the file, [] when the file
\* does not exist or cannot be parsed.
LoadForSave(m) == IF m.state = "ok" THEN m.students ELSE << >>

\* _save_to_json, lines 81-96: replace the first record with this id, else append.
UpsertRecord(recs, data) ==
    LET hits == {i \in DOMAIN recs : recs[i].id = data.id}
    IN  IF hits = {} THEN Append(recs, data)
        ELSE LET first == CHOOSE i \in hits : \A j \in hits : i <= j
             IN  [recs EXCEPT ![first] = data]

\* ---------------------------------------------------------------- reconciliation

\* One turn of the for loop of _sync_json_to_neo4j with nothing else running.
SyncRecord(ns, r) ==
    IF StudentExists(ns, r.id) THEN ns ELSE CreateStudent(ns, NodeOfRecord(r))

RECURSIVE SyncAll(_, _)
SyncAll(ns, recs) ==
    IF recs = << >> THEN ns ELSE SyncAll(SyncRecord(ns, Head(recs)), Tail(recs))

\* A whole _sync_json_to_neo4j with nothing else running.
SyncJsonToNeo4j(ns, m) == IF m.state = "ok" THEN SyncAll(ns, m.students) ELSE ns

\* ---------------------------------------------------------------- Init

\* What recommend_people has returned: nothing yet.
NoResponse == [status |-> "none", students |-> << >>]

\* What get_student_by_id has returned: nothing yet.
NoStudentResponse == [status |-> "none", student |-> None]

\* No relationship yet, and no call made.
NoCallYet ==
    /\ edges = << >>
    /\ arg = [p \in OnbProcs |-> NoStudent]
    /\ next_id = [p \in OnbProcs |-> 0]
    /\ students = [p \in OnbProcs \cup SyncProcs \cup ReaderProcs \cup MainProcs |-> << >>]
    /\ k = [p \in SyncProcs \cup ReaderProcs \cup MainProcs |-> 0]
    /\ flags = [p \in BackfillProcs |-> {}]
    /\ returned = << >>
    /\ calls = [onboard |-> 0, sync |-> 0, backfill |-> 0, recommend |-> 0, get |-> 0]
    /\ raised = [p \in BackfillProcs |-> {}]
    /\ student_id = [p \in ReaderProcs |-> 0]
    /\ current_record = [p \in RecProcs |-> None]
    /\ recommendations = [p \in RecProcs |-> NoResponse]
    /\ student = [p \in GetProcs |-> NoStudentResponse]
    /\ store_failed = [p \in ReaderProcs |-> FALSE]

\* The application is serving and no call is running.
Fresh ==
    /\ NoCallYet
    /\ pc = [p \in Procs \cup MainProcs |-> IF p \in MainProcs THEN "serving" ELSE "idle"]

Init ==
    /\ \E s \in InitStates : nodes = s[1] /\ mirror = s[2]
    /\ Fresh

\* Another call may still arrive.
CallsLeft ==
    calls.onboard + calls.sync + calls.backfill + calls.recommend + calls.get < MaxCalls

\* ---------------------------------------------------------------- save_student

\* POST /onboard: onboard_student calls save_student(student).
OnboardCall(p, st) ==
    /\ pc[p] = "idle"
    /\ CallsLeft
    /\ calls' = [calls EXCEPT !.onboard = @ + 1]
    /\ arg' = [arg EXCEPT ![p] = st]
    /\ pc' = [pc EXCEPT ![p] = "max"]
    /\ UNCHANGED <<nodes, edges, mirror, next_id, students, k, flags, returned, raised, recState>>

\* lines 37-41: next_id = (MAX(s.id) or 0) + 1.
ReadMaxId(p) ==
    /\ pc[p] = "max"
    /\ next_id' = [next_id EXCEPT ![p] = MaxId(nodes) + 1]
    /\ pc' = [pc EXCEPT ![p] = "create"]
    /\ UNCHANGED <<nodes, edges, mirror, arg, students, k, flags, returned, calls, raised, recState>>

\* lines 44-64: CREATE (s:Student {id: next_id, ...}).
CreateNode(p) ==
    /\ pc[p] = "create"
    /\ nodes' = CreateStudent(nodes, NewStudentNode(next_id[p], arg[p]))
    /\ pc' = [pc EXCEPT ![p] = "json"]
    /\ UNCHANGED <<edges, mirror, arg, next_id, students, k, flags, returned, calls, raised, recState>>

\* _save_to_json, lines 72-78: read the file.
SaveJsonRead(p) ==
    /\ pc[p] = "json"
    /\ students' = [students EXCEPT ![p] = LoadForSave(mirror)]
    /\ pc' = [pc EXCEPT ![p] = "write"]
    /\ UNCHANGED <<nodes, edges, mirror, arg, next_id, k, flags, returned, calls, raised, recState>>

\* _save_to_json, lines 81-99, then save_student returns next_id (line 69).
SaveJsonWrite(p) ==
    /\ pc[p] = "write"
    /\ mirror' = MirrorFile("ok", UpsertRecord(students[p], student_data(next_id[p], arg[p])))
    /\ returned' = Append(returned, next_id[p])
    /\ pc' = [pc EXCEPT ![p] = "idle"]
    /\ arg' = [arg EXCEPT ![p] = NoStudent]
    /\ next_id' = [next_id EXCEPT ![p] = 0]
    /\ students' = [students EXCEPT ![p] = << >>]
    /\ UNCHANGED <<nodes, edges, k, flags, calls, raised, recState>>

\* ---------------------------------------------------------------- _sync_json_to_neo4j

\* After the turn for students[k]: the next turn, or the end of the loop (back in
\* the caller: the route of POST /sync, recommend_people or get_student_by_id
\* at its second lookup, or StudentService.__init__ during the import).
SyncAdvance(q) ==
    IF k[q] < Len(students[q])
    THEN /\ k' = [k EXCEPT ![q] = @ + 1]
         /\ pc' = [pc EXCEPT ![q] = "check"]
         /\ UNCHANGED students
    ELSE /\ k' = [k EXCEPT ![q] = 0]
         /\ pc' = [pc EXCEPT ![q] = IF q \in ReaderProcs THEN "retry"
                                    ELSE IF q \in MainProcs THEN "imported"
                                    ELSE "idle"]
         /\ students' = [students EXCEPT ![q] = << >>]

\* POST /sync, lines 106-113: return when the file is missing or unreadable,
\* else load it and enter the loop.
SyncCall(q) ==
    /\ pc[q] = "idle"
    /\ CallsLeft
    /\ calls' = [calls EXCEPT !.sync = @ + 1]
    /\ IF mirror.state = "ok" /\ mirror.students # << >>
       THEN /\ students' = [students EXCEPT ![q] = mirror.students]
            /\ k' = [k EXCEPT ![q] = 1]
            /\ pc' = [pc EXCEPT ![q] = "check"]
       ELSE UNCHANGED <<students, k, pc>>
    /\ UNCHANGED <<nodes, edges, mirror, arg, next_id, flags, returned, raised, recState>>

\* lines 118-125: the existence check for students[k].
SyncCheck(q) ==
    /\ pc[q] = "check"
    /\ IF StudentExists(nodes, students[q][k[q]].id)
       THEN SyncAdvance(q)
       ELSE /\ pc' = [pc EXCEPT ![q] = "create"]
            /\ UNCHANGED <<students, k>>
    /\ UNCHANGED <<nodes, edges, mirror, arg, next_id, flags, returned, calls, raised, recState>>

\* lines 126-145: CREATE the node of students[k].
SyncCreate(q) ==
    /\ pc[q] = "create"
    /\ nodes' = CreateStudent(nodes, NodeOfRecord(students[q][k[q]]))
    /\ SyncAdvance(q)
    /\ UNCHANGED <<edges, mirror, arg, next_id, flags, returned, calls, raised, recState>>

\* ---------------------------------------------------------------- create_relationships

Kinds == {"SAME_COLLEGE", "SAME_BOARD", "SAME_STREAM", "NEARBY", "SHARES_INTEREST"}

\* run_all's arguments as the set of kinds whose create_* flag is True: the
\* default (all five), and what the --no-* options of _cli leave.
FlagSets ==
    { Kinds, {"NEARBY", "SHARES_INTEREST"} }

Relationship(kind, a, b, common) == [kind |-> kind, src |-> a, dst |-> b, common |-> common]

\* [x IN a.interests WHERE x IN b.interests]
CommonInterests(a, b) == SelectSeq(a.interests, LAMBDA x : x \in Range(b.interests))

\* The WHERE clause of each create_* query, on the nodes a and b.
Matches(kind, a, b) ==
    /\ IdLess(a.id, b.id)
    /\ CASE kind = "SAME_COLLEGE" -> CypherEq(a.college, b.college)
         [] kind = "SAME_BOARD" -> CypherEq(a.board, b.board)
         [] kind = "SAME_STREAM" -> CypherEq(a.stream, b.stream)
         [] kind = "NEARBY" -> CypherEq(a.address, b.address)
         [] kind = "SHARES_INTEREST" -> \E i \in DOMAIN a.interests : a.interests[i] \in Range(b.interests)

\* The rows MATCH (a:Student), (b:Student) WHERE ... yields, as node positions.
Rows(ns, kind) == {r \in (DOMAIN ns) \X (DOMAIN ns) : Matches(kind, ns[r[1]], ns[r[2]])}

\* Rows are taken in a fixed order (by position of a, then of b).
FirstRow(rows) ==
    CHOOSE r \in rows : \A o \in rows : r[1] < o[1] \/ (r[1] = o[1] /\ r[2] <= o[2])

\* MergeRel as it would be with CREATE in place of MERGE.
CreateRel(es, kind, a, b) == Append(es, Relationship(kind, a, b, << >>))

\* MERGE (a)-[:KIND]->(b): create the relationship unless one of this kind
\* already goes from a to b.
MergeRel(es, kind, a, b) ==
    IF \E i \in DOMAIN es : es[i].kind = kind /\ es[i].src = a /\ es[i].dst = b
    THEN es
    ELSE Append(es, Relationship(kind, a, b, << >>))

\* SET r.common = ...: on every relationship the MERGE bound to r.
SetCommon(es, a, b, common) ==
    [i \in DOMAIN es |->
        IF es[i].kind = "SHARES_INTEREST" /\ es[i].src = a /\ es[i].dst = b
        THEN [es[i] EXCEPT !.common = common]
        ELSE es[i]]

\* One row of a create_* query.
MergeRow(ns, es, kind, r) ==
    LET merged == MergeRel(es, kind, r[1], r[2])
    IN  IF kind = "SHARES_INTEREST"
        THEN SetCommon(merged, r[1], r[2], CommonInterests(ns[r[1]], ns[r[2]]))
        ELSE merged

\* The rows of one query, one after the other: a row sees what the rows
\* before it wrote (each row's result is computed before the next row starts).
RECURSIVE MergeRows(_, _, _, _)
MergeRows(ns, es, kind, rows) ==
    IF rows = {} THEN es
    ELSE LET r == FirstRow(rows)
             written == MergeRow(ns, es, kind, r)
         IN  IF written = es
             THEN MergeRows(ns, es, kind, rows \ {r})
             ELSE MergeRows(ns, written, kind, rows \ {r})

\* create_same_college, create_same_board, create_same_stream, create_nearby,
\* create_shares_interest: one query each, one transaction.
CreateKind(ns, es, kind) == MergeRows(ns, es, kind, Rows(ns, kind))

\* The `if create_x: create_x()` lines of run_all.
RunStep(ns, es, f, kind) == IF kind \in f THEN CreateKind(ns, es, kind) ELSE es

\* A whole run_all with nothing else running: college, board, stream, address, interest.
RunAllEdges(ns, es, f) ==
    LET e1 == RunStep(ns, es, f, "SAME_COLLEGE")
        e2 == RunStep(ns, e1, f, "SAME_BOARD")
        e3 == RunStep(ns, e2, f, "SAME_STREAM")
        e4 == RunStep(ns, e3, f, "NEARBY")
    IN  RunStep(ns, e4, f, "SHARES_INTEREST")

\* The order of the `if create_x: create_x()` lines of run_all.
KindOrder == <<"SAME_COLLEGE", "SAME_BOARD", "SAME_STREAM", "NEARBY", "SHARES_INTEREST">>

\* The first create_* that run_all with flags f calls from line i on, "idle"
\* (run_all returns) when there is none.
RECURSIVE NextEnabled(_, _)
NextEnabled(f, i) ==
    IF i > Len(KindOrder) THEN "idle"
    ELSE IF KindOrder[i] \in f THEN KindOrder[i]
    ELSE NextEnabled(f, i + 1)

\* run_all is entered (the start-up backfill thread, or the command line).
RunAll(b, f) ==
    /\ pc[b] = "idle"
    /\ CallsLeft
    /\ calls' = [calls EXCEPT !.backfill = @ + 1]
    /\ flags' = [flags EXCEPT ![b] = f]
    /\ raised' = [raised EXCEPT ![b] = {}]
    /\ pc' = [pc EXCEPT ![b] = NextEnabled(f, 1)]
    /\ UNCHANGED <<nodes, edges, mirror, arg, next_id, students, k, returned, recState>>

\* What a create_* call of run_all (line i of KindOrder) does: its query, then
\* on to the next enabled create_*.
BackfillStep(b, i) ==
    /\ edges' = CreateKind(nodes, edges, KindOrder[i])
    /\ LET next == NextEnabled(flags[b], i + 1)
       IN  /\ pc' = [pc EXCEPT ![b] = next]
           /\ flags' = IF next = "idle" THEN [flags EXCEPT ![b] = {}] ELSE flags
    /\ UNCHANGED <<nodes, mirror, arg, next_id, students, k, returned, calls, raised, recState>>

CreateSameCollege(b) ==
    /\ pc[b] = "SAME_COLLEGE"
    /\ BackfillStep(b, 1)

CreateSameBoard(b) ==
    /\ pc[b] = "SAME_BOARD"
    /\ BackfillStep(b, 2)

CreateSameStream(b) ==
    /\ pc[b] = "SAME_STREAM"
    /\ BackfillStep(b, 3)

CreateNearby(b) ==
    /\ pc[b] = "NEARBY"
    /\ BackfillStep(b, 4)

CreateSharesInterest(b) ==
    /\ pc[b] = "SHARES_INTEREST"
    /\ BackfillStep(b, 5)

\* A create_* whose session.run raises (the store is unreachable, the
\* transaction fails): nothing is written, the finally clause closes the
\* connection, and the exception leaves create_* and run_all, which has no
\* handler: the run is over.
CreateRaises(b) ==
    /\ pc[b] \in Kinds
    /\ raised' = [raised EXCEPT ![b] = @ \cup {pc[b]}]
    /\ pc' = [pc EXCEPT ![b] = "idle"]
    /\ flags' = [flags EXCEPT ![b] = {}]
    /\ UNCHANGED <<nodes, edges, mirror, arg, next_id, students, k, returned, calls, recState>>

\* ---------------------------------------------------------------- recommend_people

\* The columns the first query of recommend_people returns for a node.
CurrentRecord(n) ==
    [board |-> n.board, stream |-> n.stream, college |-> n.college,
     address |-> n.address, interests |-> n.interests]

\* FindStudent as it would be if the lookup never found anything.
FindStudentNever(ns, id) == None

\* MATCH (s:Student {id: $student_id}) RETURN ... then result.single(): the
\* record of the first node carrying the id, or None.
FindStudent(ns, id) ==
    LET hits == {i \in DOMAIN ns : CypherEq(ns[i].id, Some(id))}
    IN  IF hits = {} THEN None
        ELSE Some(CurrentRecord(ns[CHOOSE i \in hits : \A j \in hits : i <= j]))

\* OtherStudents as it would be without the WHERE clause.
AllStudents(ns, id) == SelectSeq(ns, LAMBDA n : n.id # None)

\* MATCH (s:Student) WHERE s.id <> $student_id: the other nodes, in the order
\* the store enumerates them (a null id makes the comparison null: dropped).
OtherStudents(ns, id) == SelectSeq(ns, LAMBDA n : n.id # None /\ n.id[1] # id)

\* [i for i in other_interests if i in current_interests]
MatchingInterests(cur, rec) ==
    SelectSeq(rec.interests, LAMBDA i : i \in Range(cur.interests))

\* MatchedFields as it would be with the address test ahead of the others.
MatchedFieldsAddressFirst(cur, rec) ==
    (IF rec.address = cur.address THEN <<"address">> ELSE << >>)
    \o (IF rec.board = cur.board THEN <<"board">> ELSE << >>)
    \o (IF rec.stream = cur.stream THEN <<"stream">> ELSE << >>)
    \o (IF rec.college = cur.college THEN <<"college">> ELSE << >>)
    \o (IF MatchingInterests(cur, rec) # << >> THEN <<"interests">> ELSE << >>)

\* Lines 251-276: matched_fields of a candidate.  The comparisons are Python's
\* ==, under which None equals None and "" equals "".
MatchedFields(cur, rec) ==
    (IF rec.board = cur.board THEN <<"board">> ELSE << >>)
    \o (IF rec.stream = cur.stream THEN <<"stream">> ELSE << >>)
    \o (IF rec.college = cur.college THEN <<"college">> ELSE << >>)
    \o (IF rec.address = cur.address THEN <<"address">> ELSE << >>)
    \o (IF MatchingInterests(cur, rec) # << >> THEN <<"interests">> ELSE << >>)

\* Lines 279-286: the StudentResponse of a candidate with a name.
StudentResponse(cur, rec) ==
    [id |-> rec.id[1], name |-> rec.name[1], address |-> rec.address,
     matched_on |-> MatchedFields(cur, rec),
     matching_interests |-> IF MatchingInterests(cur, rec) = << >> THEN None
                            ELSE Some(MatchingInterests(cur, rec)),
     same_address |-> rec.address = cur.address]

\* RecommendationsError as it would be if the route answered an empty list.
RecommendationsEmpty == [status |-> "ok", students |-> << >>]

\* An exception in recommend_people reaches the route, which answers HTTP 500.
RecommendationsError == [status |-> "error", students |-> << >>]

\* Lines 237-288 and the route: the candidates with a matched field, in the
\* order of the store.  StudentResponse requires name to be a str, so a
\* matched candidate without a name raises, and the route answers 500.
Recommend(ns, cur, id) ==
    LET matched == SelectSeq(OtherStudents(ns, id), LAMBDA n : MatchedFields(cur, n) # << >>)
    IN  IF \E i \in DOMAIN matched : matched[i].name = None
        THEN RecommendationsError
        ELSE [status |-> "ok",
              students |-> IF matched = << >> THEN << >>
                           ELSE [i \in DOMAIN matched |-> StudentResponse(cur, matched[i])]]

\* GET /recommend/people/{student_id} arrives.
RecommendCall(r, id) ==
    /\ pc[r] = "idle"
    /\ CallsLeft
    /\ calls' = [calls EXCEPT !.recommend = @ + 1]
    /\ student_id' = [student_id EXCEPT ![r] = id]
    /\ current_record' = [current_record EXCEPT ![r] = None]
    /\ recommendations' = [recommendations EXCEPT ![r] = NoResponse]
    /\ store_failed' = [store_failed EXCEPT ![r] = FALSE]
    /\ pc' = [pc EXCEPT ![r] = "lookup"]
    /\ UNCHANGED <<nodes, edges, mirror, arg, next_id, students, k, flags, returned, raised,
                   student>>

\* Lines 204-214: the first lookup of the subject.
RecLookup(r) ==
    /\ pc[r] = "lookup"
    /\ current_record' = [current_record EXCEPT ![r] = FindStudent(nodes, student_id[r])]
    /\ pc' = [pc EXCEPT ![r] = IF current_record'[r] = None THEN "load" ELSE "scan"]
    /\ UNCHANGED <<nodes, edges, mirror, arg, next_id, students, k, flags, returned, calls,
                   raised, student_id, recommendations, student, store_failed>>

\* Line 216, entering _sync_json_to_neo4j (lines 106-113): return when the file
\* is missing or unreadable, else load it and enter the loop.
RecSyncLoad(r) ==
    /\ pc[r] = "load"
    /\ IF mirror.state = "ok" /\ mirror.students # << >>
       THEN /\ students' = [students EXCEPT ![r] = mirror.students]
            /\ k' = [k EXCEPT ![r] = 1]
            /\ pc' = [pc EXCEPT ![r] = "check"]
       ELSE /\ pc' = [pc EXCEPT ![r] = "retry"]
            /\ UNCHANGED <<students, k>>
    /\ UNCHANGED <<nodes, edges, mirror, arg, next_id, flags, returned, calls, raised, recState>>

\* Lines 218-228: the second lookup; [] when the subject is still not there.
RecRetry(r) ==
    /\ pc[r] = "retry"
    /\ current_record' = [current_record EXCEPT ![r] = FindStudent(nodes, student_id[r])]
    /\ IF current_record'[r] = None
       THEN /\ recommendations' = [recommendations EXCEPT ![r] = [status |-> "ok", students |-> << >>]]
            /\ pc' = [pc EXCEPT ![r] = "idle"]
       ELSE /\ pc' = [pc EXCEPT ![r] = "scan"]
            /\ UNCHANGED recommendations
    /\ UNCHANGED <<nodes, edges, mirror, arg, next_id, students, k, flags, returned, calls,
                   raised, student_id, student, store_failed>>

\* Lines 230-288: the query for the other students, the loop over its
\* records, and the return.
RecScan(r) ==
    /\ pc[r] = "scan"
    /\ recommendations' = [recommendations EXCEPT ![r] =
                              Recommend(nodes, current_record[r][1], student_id[r])]
    /\ pc' = [pc EXCEPT ![r] = "idle"]
    /\ UNCHANGED <<nodes, edges, mirror, arg, next_id, students, k, flags, returned, calls,
                   raised, student_id, current_record, student, store_failed>>

\* A session.run of recommend_people raises (one of its lookups, a query of
\* the reconciliation, the scan): nothing in recommend_people or in
\* _sync_json_to_neo4j catches it, the route answers HTTP 500.
RecRaises(r) ==
    /\ pc[r] \in {"lookup", "check", "create", "retry", "scan"}
    /\ store_failed' = [store_failed EXCEPT ![r] = TRUE]
    /\ recommendations' = [recommendations EXCEPT ![r] = RecommendationsError]
    /\ pc' = [pc EXCEPT ![r] = "idle"]
    /\ students' = [students EXCEPT ![r] = << >>]
    /\ k' = [k EXCEPT ![r] = 0]
    /\ UNCHANGED <<nodes, edges, mirror, arg, next_id, flags, returned, calls, raised,
                   student_id, current_record, student>>

\* ---------------------------------------------------------------- get_student_by_id

\* MATCH (s:Student {id: $student_id}) RETURN s.id, s.name, ... then
\* result.single(): the first node carrying the id, or None.
GetRecord(ns, id) ==
    LET hits == {i \in DOMAIN ns : CypherEq(ns[i].id, Some(id))}
    IN  IF hits = {} THEN None
        ELSE Some(ns[CHOOSE i \in hits : \A j \in hits : i <= j])

\* Lines 187-195: the StudentDetail of a record with a name (interests is
\* `record.get("interests") or []`, a list in every case).
StudentDetail(record) ==
    [id |-> record.id[1], name |-> record.name[1], address |-> record.address,
     college |-> record.college, board |-> record.board, stream |-> record.stream,
     interests |-> record.interests]

\* Lines 184-195 and the route (lines 80-88): None becomes HTTP 404;
\* StudentDetail requires name to be a str, so a record without a name
\* raises and the route answers 500.
StudentAnswer(record) ==
    IF record = None THEN [status |-> "not_found", student |-> None]
    ELSE IF record[1].name = None THEN [status |-> "error", student |-> None]
    ELSE [status |-> "ok", student |-> Some(StudentDetail(record[1]))]

\* GET /students/{student_id} arrives.
GetCall(g, id) ==
    /\ pc[g] = "idle"
    /\ CallsLeft
    /\ calls' = [calls EXCEPT !.get = @ + 1]
    /\ student_id' = [student_id EXCEPT ![g] = id]
    /\ student' = [student EXCEPT ![g] = NoStudentResponse]
    /\ store_failed' = [store_failed EXCEPT ![g] = FALSE]
    /\ pc' = [pc EXCEPT ![g] = "lookup"]
    /\ UNCHANGED <<nodes, edges, mirror, arg, next_id, students, k, flags, returned, raised,
                   current_record, recommendations>>

\* Lines 158-169, and 184-195 when the record is there.
GetLookup(g) ==
    /\ pc[g] = "lookup"
    /\ IF GetRecord(nodes, student_id[g]) = None
       THEN /\ pc' = [pc EXCEPT ![g] = "load"]
            /\ UNCHANGED student
       ELSE /\ student' = [student EXCEPT ![g] =
                              StudentAnswer(GetRecord(nodes, student_id[g]))]
            /\ pc' = [pc EXCEPT ![g] = "idle"]
    /\ UNCHANGED <<nodes, edges, mirror, arg, next_id, students, k, flags, returned, calls,
                   raised, student_id, current_record, recommendations, store_failed>>

\* Lines 174-195: the second lookup and the return.
GetRetry(g) ==
    /\ pc[g] = "retry"
    /\ student' = [student EXCEPT ![g] =
                      StudentAnswer(GetRecord(nodes, student_id[g]))]
    /\ pc' = [pc EXCEPT ![g] = "idle"]
    /\ UNCHANGED <<nodes, edges, mirror, arg, next_id, students, k, flags, returned, calls,
                   raised, student_id, current_record, recommendations, store_failed>>

\* A session.run of get_student_by_id raises: nothing catches it before the
\* route, which answers HTTP 500.
GetRaises(g) ==
    /\ pc[g] \in {"lookup", "check", "create", "retry"}
    /\ store_failed' = [store_failed EXCEPT ![g] = TRUE]
    /\ student' = [student EXCEPT ![g] = [status |-> "error", student |-> None]]
    /\ pc' = [pc EXCEPT ![g] = "idle"]
    /\ students' = [students EXCEPT ![g] = << >>]
    /\ k' = [k EXCEPT ![g] = 0]
    /\ UNCHANGED <<nodes, edges, mirror, arg, next_id, flags, returned, calls, raised,
                   student_id, current_record, recommendations>>

\* ------------------------------------------------- stores whose attributes vary

\* Students onboarded through POST /onboard (any str is accepted, the empty
\* and the blank one too) and records written by hand into students.json.
StN1 == StudentCreate(<<"a">>, <<"k">>, <<"x">>, <<"N">>, << >>, << <<"m">>, <<"c">> >>)
StD4 == StudentCreate(<<"d">>, <<" ">>, <<"y">>, <<"N">>, <<" ">>, << >>)
RecB2 == MirrorRecord(Some(2), Some(<<"b">>), Some(<<"p">>), None,
                      Some(<<"n", " ">>), Some(<< >>), Some(<< <<"M">>, <<"r">> >>))
RecC3 == MirrorRecord(Some(3), Some(<<"c">>), Some(<<"k">>), None,
                      Some(<<"N">>), Some(<<"s">>), Some(<< <<"c">>, <<"m">>, <<"m">> >>))
RecE5 == MirrorRecord(Some(5), Some(<<"e">>), Some(<<"k">>), Some(<<"x">>),
                      None, Some(<< >>), Some(<< <<"m">> >>))

\* The nodes they become.
NodePool ==
    { NewStudentNode(1, StN1), NodeOfRecord(RecB2), NodeOfRecord(RecC3), NewStudentNode(4, StD4) }

\* A store: two or three of them, in any order of creation.
VariedStores ==
    { <<a, b>> : a \in NodePool, b \in NodePool } \cup
    { <<a, b, c>> : a \in NodePool, b \in NodePool, c \in NodePool }

VariedMirrors ==
    { MirrorFile("missing", << >>), MirrorFile("ok", << >>),
      MirrorFile("ok", <<RecNoName3, RecE5>>) }

\* The ids a client asks recommendations for.
AskedIds == 1 .. 5

InitVaried ==
    /\ nodes \in {s \in VariedStores : \A i, j \in DOMAIN s : i # j => s[i] # s[j]}
    /\ mirror \in VariedMirrors
    /\ Fresh

\* ---------------------------------------------------------------- process startup

\* main.py is about to be imported: nothing is running, the store and
\* students.json are what earlier runs and hand edits left.
InitStartup ==
    /\ \E s \in InitStates : nodes = s[1] /\ mirror = s[2]
    /\ NoCallYet
    /\ pc = [p \in Procs \cup MainProcs |-> IF p \in MainProcs THEN "import" ELSE "idle"]

\* `from routes.student_routes import router` (main.py line 12) runs
\* student_service = StudentService() (student_routes.py line 7), whose
\* __init__ calls _sync_json_to_neo4j (line 24): return when the file is
\* missing or unreadable (lines 106-113), else load it and enter the loop.
StudentServiceInit(m) ==
    /\ pc[m] = "import"
    /\ IF mirror.state = "ok" /\ mirror.students # << >>
       THEN /\ students' = [students EXCEPT ![m] = mirror.students]
            /\ k' = [k EXCEPT ![m] = 1]
            /\ pc' = [pc EXCEPT ![m] = "check"]
       ELSE /\ pc' = [pc EXCEPT ![m] = "imported"]
            /\ UNCHANGED <<students, k>>
    /\ UNCHANGED <<nodes, edges, mirror, arg, next_id, flags, returned, calls, raised, recState>>

\* A session.run of the constructor's reconciliation raises: nothing catches
\* it, the import of main.py fails and the process ends before the application
\* exists.
InitRaises(m) ==
    /\ pc[m] \in {"check", "create"}
    /\ pc' = [pc EXCEPT ![m] = "failed"]
    /\ students' = [students EXCEPT ![m] = << >>]
    /\ k' = [k EXCEPT ![m] = 0]
    /\ UNCHANGED <<nodes, edges, mirror, arg, next_id, flags, returned, calls, raised, recState>>

\* Imported as it would be if the constructor left the reconciliation to run
\* in the background.
ImportedEarly(m) == pc[m] \in {"check", "create", "imported"}

\* The import at line 12 of main.py has returned: the module-level
\* StudentService() is constructed, and the lines below it run.
Imported(m) == pc[m] = "imported"

\* startup_backfill, the handler of the startup event: start the daemon thread
\* and return; the application then serves requests.
startup_backfill(m, b) ==
    /\ Imported(m)
    /\ pc[b] = "idle"
    /\ calls' = [calls EXCEPT !.backfill = @ + 1]
    /\ pc' = [pc EXCEPT ![m] = "serving", ![b] = "thread"]
    /\ students' = [students EXCEPT ![m] = << >>]
    /\ k' = [k EXCEPT ![m] = 0]
    /\ UNCHANGED <<nodes, edges, mirror, arg, next_id, flags, returned, raised, recState>>

\* _backfill, the body of the thread: run create_relationships.py, whose _cli
\* without options calls run_all with every flag True.
Backfill(b) ==
    /\ pc[b] = "thread"
    /\ flags' = [flags EXCEPT ![b] = Kinds]
    /\ raised' = [raised EXCEPT ![b] = {}]
    /\ pc' = [pc EXCEPT ![b] = NextEnabled(Kinds, 1)]
    /\ UNCHANGED <<nodes, edges, mirror, arg, next_id, students, k, returned, calls, recState>>

\* The application has started: requests are accepted.
Serving == \A m \in MainProcs : pc[m] = "serving"

\* ---------------------------------------------------------------- specifications

\* No call of any operation is running.
Quiet == \A p \in Procs : pc[p] = "idle"

\* A step of a call that is already running.
Step ==
    \/ \E p \in OnbProcs : ReadMaxId(p)
    \/ \E p \in OnbProcs : CreateNode(p)
    \/ \E p \in OnbProcs : SaveJsonRead(p)
    \/ \E p \in OnbProcs : SaveJsonWrite(p)
    \/ \E q \in SyncProcs : SyncCheck(q)
    \/ \E q \in SyncProcs : SyncCreate(q)
    \/ \E b \in BackfillProcs : CreateSameCollege(b)
    \/ \E b \in BackfillProcs : CreateSameBoard(b)
    \/ \E b \in BackfillProcs : CreateSameStream(b)
    \/ \E b \in BackfillProcs : CreateNearby(b)
    \/ \E b \in BackfillProcs : CreateSharesInterest(b)

\* A new call arrives.
Call ==
    \/ \E p \in OnbProcs, st \in Students : OnboardCall(p, st)
    \/ \E q \in SyncProcs : SyncCall(q)
    \/ \E b \in BackfillProcs, f \in FlagSets : RunAll(b, f)

\* Requests are served in parallel: calls arrive while others run.
Next == Call \/ Step

Spec == Init /\ [][Next]_vars

\* Calls one after another: a call arrives only when none is running.
NextSeq ==
    \/ \E p \in OnbProcs, st \in Students : Quiet /\ OnboardCall(p, st)
    \/ \E q \in SyncProcs : Quiet /\ SyncCall(q)
    \/ \E b \in BackfillProcs, f \in FlagSets : Quiet /\ RunAll(b, f)
    \/ Step

SpecSeq == Init /\ [][NextSeq]_vars

\* A step of a recommend_people or of a get_student_by_id that is already
\* running.
StepReaders ==
    \/ \E r \in RecProcs : RecLookup(r)
    \/ \E r \in ReaderProcs : RecSyncLoad(r)
    \/ \E r \in ReaderProcs : SyncCheck(r)
    \/ \E r \in ReaderProcs : SyncCreate(r)
    \/ \E r \in RecProcs : RecRetry(r)
    \/ \E r \in RecProcs : RecScan(r)
    \/ \E g \in GetProcs : GetLookup(g)
    \/ \E g \in GetProcs : GetRetry(g)

\* A step of a reader or of a run_all that is already running; a create_* of
\* run_all may raise.
StepVaried ==
    \/ StepReaders
    \/ \E b \in BackfillProcs : CreateSameCollege(b)
    \/ \E b \in BackfillProcs : CreateSameBoard(b)
    \/ \E b \in BackfillProcs : CreateSameStream(b)
    \/ \E b \in BackfillProcs : CreateNearby(b)
    \/ \E b \in BackfillProcs : CreateSharesInterest(b)
    \/ \E b \in BackfillProcs : CreateRaises(b)

\* Recommendations, lookups and backfills one after another, over the varied
\* stores.
NextVaried ==
    \/ \E r \in RecProcs, id \in AskedIds : Quiet /\ RecommendCall(r, id)
    \/ \E g \in GetProcs, id \in AskedIds : Quiet /\ GetCall(g, id)
    \/ \E b \in BackfillProcs, f \in FlagSets : Quiet /\ RunAll(b, f)
    \/ StepVaried

SpecVaried == InitVaried /\ [][NextVaried]_vars

\* Every operation, one call after another, from the states the service
\* starts in; a store call of a reader may raise as well.
NextAll ==
    \/ NextSeq
    \/ \E r \in RecProcs, id \in AskedIds : Quiet /\ RecommendCall(r, id)
    \/ \E g \in GetProcs, id \in AskedIds : Quiet /\ GetCall(g, id)
    \/ StepReaders
    \/ \E b \in BackfillProcs : CreateRaises(b)
    \/ \E r \in RecProcs : RecRaises(r)
    \/ \E g \in GetProcs : GetRaises(g)

SpecAll == Init /\ [][NextAll]_vars

\* ---------------------------------------------------------------- helpers of the properties

\* A mirror record with its required fields: id and name.
WellFormed(r) == r.id # None /\ r.name # None

\* The ids carried by the nodes ns.
IdsOf(ns) == {ns[i].id[1] : i \in {j \in DOMAIN ns : ns[j].id # None}}

\* How many nodes of ns carry the id n.
CountId(ns, n) == Cardinality({i \in DOMAIN ns : ns[i].id = Some(n)})

\* n is what the allocator owes for the store ns: 1 for a store without ids,
\* else one more than the greatest id.
IsNextAfter(n, ns) ==
    IF IdsOf(ns) = {} THEN n = 1
    ELSE (n - 1) \in IdsOf(ns) /\ \A x \in IdsOf(ns) : x <= n - 1

\* The ids whose node a save_student call has created (returned or not yet).
OnboardedIds ==
    Range(returned) \cup {next_id[p] : p \in {o \in OnbProcs : pc[o] \in {"json", "write"}}}

\* The start of the process: the import with the constructor's reconciliation,
\* the startup event, the backfill thread, and the requests served once the
\* application has started (onboardings and POST /sync, in parallel).
NextStartup ==
    \/ \E m \in MainProcs : StudentServiceInit(m)
    \/ \E m \in MainProcs : SyncCheck(m)
    \/ \E m \in MainProcs : SyncCreate(m)
    \/ \E m \in MainProcs : InitRaises(m)
    \/ \E m \in MainProcs, b \in BackfillProcs : startup_backfill(m, b)
    \/ \E b \in BackfillProcs : Backfill(b)
    \/ \E b \in BackfillProcs : CreateRaises(b)
    \/ \E p \in OnbProcs, st \in Students : Serving /\ OnboardCall(p, st)
    \/ \E q \in SyncProcs : Serving /\ SyncCall(q)
    \/ Step

SpecStartup == InitStartup /\ [][NextStartup]_vars

\* ---------------------------------------------------------------- C1

\* C1: whatever the interleaving of concurrent save_student calls (and no
\* reconciliation at all), no two calls return the same id and no two nodes
\* of the store carry the same onboarded id.
C1_UniqueOnboardIds ==
    calls.sync = 0 =>
        /\ \A i, j \in DOMAIN returned : i # j => returned[i] # returned[j]
        /\ \A n \in OnboardedIds : CountId(nodes, n) <= 1

\* ---------------------------------------------------------------- C2

\* C2: with calls one after another, the id save_student reads is max + 1 of
\* the ids in the store (1 for none), the node it creates carries it, the
\* returned ids grow, and onboardings alone into an empty store return 1, 2, 3.
C2_SequentialIds ==
    /\ \A p \in OnbProcs :
        /\ pc[p] = "create" => IsNextAfter(next_id[p], nodes)
        /\ pc[p] \in {"json", "write"} =>
              /\ IsNextAfter(next_id[p], SubSeq(nodes, 1, Len(nodes) - 1))
              /\ nodes[Len(nodes)].id = Some(next_id[p])
    /\ \A i, j \in DOMAIN returned : i < j => returned[i] < returned[j]
    /\ \A i \in DOMAIN returned : CountId(nodes, returned[i]) = 1
    /\ Len(nodes) = Len(returned) => \A i \in DOMAIN returned : returned[i] = i

\* Three onboardings into an empty store have returned 1, 2, 3.
C2_Witness == returned = <<1, 2, 3>> /\ Len(nodes) = 3

\* ---------------------------------------------------------------- C3

\* C3: an insert (by save_student or by reconciliation) of a node whose id is
\* already in the store leaves the store as it was.
C3_DuplicateInsertRejected ==
    [][ /\ \A p \in OnbProcs :
             (pc[p] = "create" /\ pc'[p] # "create" /\ StudentExists(nodes, Some(next_id[p])))
                 => nodes' = nodes
        /\ \A q \in SyncProcs :
             (pc[q] = "create" /\ pc'[q] # "create" /\ StudentExists(nodes, students[q][k[q]].id))
                 => nodes' = nodes ]_vars

\* ---------------------------------------------------------------- C4

\* A step of a _sync_json_to_neo4j call.
SyncMoves == \E q \in SyncProcs : pc'[q] # pc[q] \/ k'[q] # k[q]

\* C4: no step of reconciliation changes or removes a node that is in the store.
C4_ReconcileKeepsExisting ==
    [][ SyncMoves =>
            /\ Len(nodes') >= Len(nodes)
            /\ \A i \in DOMAIN nodes : nodes'[i] = nodes[i] ]_vars

\* The store held id 1 with college "x", the mirror holds id 1 with college
\* "y", and a reconciliation over that mirror has run to its end.
C4_Witness ==
    /\ pc["s1"] = "idle" /\ calls.sync = 1 /\ calls.onboard = 0
    /\ nodes # << >> /\ nodes[1] = EarlierStore[1]
    /\ mirror.state = "ok"
    /\ \E j \in DOMAIN mirror.students :
          /\ mirror.students[j].id = nodes[1].id
          /\ mirror.students[j].college = Some(<<"y">>)
          /\ nodes[1].college = Some(<<"x">>)

\* ---------------------------------------------------------------- C5

\* C5: once a reconciliation has run to its end and the mirror is as it was,
\* running reconciliation again leaves the nodes of the store as they are.
C5_ReconcileIdempotent ==
    (Quiet /\ calls.sync >= 1 /\ calls.onboard = 0) =>
        SyncJsonToNeo4j(nodes, mirror) = nodes

\* ---------------------------------------------------------------- C6

\* C6: when another writer has inserted the id of the record between the
\* existence check of reconciliation and its insert, reconciliation skips the
\* record: its insert step leaves the store as it was.
C6_LostRaceSkipped ==
    [][ \A q \in SyncProcs :
            (pc[q] = "create" /\ pc'[q] # "create"
                /\ students[q][k[q]].id # None
                /\ CountId(nodes, students[q][k[q]].id[1]) >= 1)
                => nodes' = nodes ]_vars

\* ---------------------------------------------------------------- C7

\* No earlier record of recs carries the id of recs[j].
FirstWithId(recs, j) == \A i \in 1..(j - 1) : recs[i].id # recs[j].id

\* The record has both required fields and no node of ns carries its id.
AbsentWellFormed(ns, r) == WellFormed(r) /\ r.id[1] \notin IdsOf(ns)

\* The node n carries exactly what the record r holds (interests [] for none).
Carries(n, r) ==
    /\ n.id = r.id /\ n.name = r.name /\ n.address = r.address
    /\ n.college = r.college /\ n.board = r.board /\ n.stream = r.stream
    /\ n.interests = (IF r.interests = None THEN << >> ELSE r.interests[1])

\* C7 as stated: after a reconciliation with no other writer, every
\* well-formed mirror record whose id was absent from the store has a node
\* with exactly its id, name, address, college, board, stream and interests.
C7_EveryAbsentRecordInserted ==
    (Quiet /\ mirror.state = "ok") =>
        LET after == SyncJsonToNeo4j(nodes, mirror)
        IN  \A j \in DOMAIN mirror.students :
                AbsentWellFormed(nodes, mirror.students[j])
                    => \E i \in DOMAIN after : Carries(after[i], mirror.students[j])

\* C7 amended: the same for every such record that is the first record of
\* the mirror with its id; and a reconciliation run step by step ends in the
\* store that SyncJsonToNeo4j computes.
C7_FirstAbsentRecordInserted ==
    /\ (Quiet /\ mirror.state = "ok") =>
          LET after == SyncJsonToNeo4j(nodes, mirror)
          IN  \A j \in DOMAIN mirror.students :
                  (AbsentWellFormed(nodes, mirror.students[j]) /\ FirstWithId(mirror.students, j))
                      => \E i \in DOMAIN after : Carries(after[i], mirror.students[j])
    /\ (Quiet /\ calls.sync = 1 /\ calls.onboard = 0) =>
          \E s \in InitStates : s[2] = mirror /\ nodes = SyncJsonToNeo4j(s[1], mirror)

\* A reconciliation into the empty store has inserted both records of the
\* mirror, verbatim.
C7_Witness ==
    /\ Quiet /\ calls.sync >= 1
    /\ mirror = MirrorFile("ok", <<RecD2, RecE1>>)
    /\ nodes = <<NodeOfRecord(RecD2), NodeOfRecord(RecE1)>>

\* ---------------------------------------------------------------- C8

\* C8: reconciliation creates no node for a record without id or name, and
\* goes on to the records after it (the call ends only after the last record).
C8_MalformedSkipped ==
    [][ \A q \in SyncProcs :
            /\ (pc[q] = "create" /\ pc'[q] # "create") => WellFormed(students[q][k[q]])
            /\ (pc[q] \in {"check", "create"} /\ pc'[q] = "idle") => k[q] = Len(students[q]) ]_vars

\* ---------------------------------------------------------------- C9

\* No two relationships of es have the same kind, source and target.
NoDuplicateEdges(es) ==
    \A i, j \in DOMAIN es :
        (es[i].kind = es[j].kind /\ es[i].src = es[j].src /\ es[i].dst = es[j].dst) => i = j

\* C9: on any store the model reaches, run_all, run a second time on the same
\* nodes, leaves the relationships (their kinds, ends and common lists)
\* exactly as the first run left them, one per kind and node pair.
C9_BackfillIdempotent ==
    \A f \in FlagSets :
        LET once == RunAllEdges(nodes, edges, f)
        IN  /\ RunAllEdges(nodes, once, f) = once
            /\ NoDuplicateEdges(once)
            /\ \A i \in DOMAIN edges : once[i] = edges[i]

\* run_all has run twice and the store holds relationships, one of them a
\* SHARES_INTEREST with its common list, that a further run leaves alone.
C9_Witness ==
    /\ Quiet /\ calls.backfill = 2
    /\ \E i \in DOMAIN edges : edges[i].kind = "SHARES_INTEREST" /\ edges[i].common # << >>
    /\ \E i \in DOMAIN edges : edges[i].kind = "SAME_COLLEGE"
    /\ RunAllEdges(nodes, edges, Kinds) = edges

\* ---------------------------------------------------------------- C10

\* C10: every relationship goes from a node to another node with a strictly
\* greater id.
C10_CanonicalOrder ==
    \A i \in DOMAIN edges :
        LET a == nodes[edges[i].src]
            b == nodes[edges[i].dst]
        IN  /\ edges[i].src # edges[i].dst
            /\ a.id # None /\ b.id # None
            /\ a.id[1] < b.id[1]

\* A relationship whose source (the lower id) was inserted after its target.
C10_Witness == \E i \in DOMAIN edges : edges[i].src > edges[i].dst

\* ---------------------------------------------------------------- C11

\* A text of blanks only (the empty text too).
Blank(t) == \A i \in DOMAIN t : t[i] = " "

\* An attribute that is missing or empty: absent, empty or blank.
MissingOrEmpty(o) == o = None \/ Blank(o[1])

\* The attribute of node n that a relationship of this kind is about.
AttributeOf(kind, n) ==
    CASE kind = "SAME_COLLEGE" -> n.college
      [] kind = "SAME_BOARD" -> n.board
      [] kind = "SAME_STREAM" -> n.stream
      [] kind = "NEARBY" -> n.address

\* C11: no SAME_COLLEGE, SAME_BOARD, SAME_STREAM or NEARBY relationship joins
\* two nodes whose attribute of that kind is missing or empty on both sides.
C11_NoEdgeOnMissingAttribute ==
    \A i \in DOMAIN edges :
        edges[i].kind # "SHARES_INTEREST" =>
            ~ /\ MissingOrEmpty(AttributeOf(edges[i].kind, nodes[edges[i].src]))
              /\ MissingOrEmpty(AttributeOf(edges[i].kind, nodes[edges[i].dst]))

\* ---------------------------------------------------------------- C12

\* The scalar attributes recommend_people compares.
ScalarFields == {"board", "stream", "college", "address"}

\* recommend_people has returned a list (not an error) to the client.
Answered(r) == pc[r] = "idle" /\ recommendations[r].status = "ok"

\* The node the call of r was about: the first one carrying the id asked for.
SubjectOf(r) ==
    nodes[CHOOSE i \in DOMAIN nodes :
            /\ nodes[i].id = Some(student_id[r])
            /\ \A j \in DOMAIN nodes : nodes[j].id = Some(student_id[r]) => i <= j]

\* The nodes a returned entry may stand for.
NodesWithId(id) == {n \in Range(nodes) : n.id = Some(id)}

\* C12: in what recommend_people returns, no entry has board, stream, college
\* or address in matched_on, nor same_address set, when that attribute is
\* missing or empty on both the subject and the candidate.
C12_NoMatchOnMissingAttribute ==
    \A r \in RecProcs :
        Answered(r) =>
            \A i \in DOMAIN recommendations[r].students :
                LET entry == recommendations[r].students[i]
                IN  \A n \in NodesWithId(entry.id) :
                        /\ \A f \in ScalarFields :
                              f \in Range(entry.matched_on) =>
                                  ~(MissingOrEmpty(SubjectOf(r)[f]) /\ MissingOrEmpty(n[f]))
                        /\ entry.same_address =>
                              ~(MissingOrEmpty(SubjectOf(r).address) /\ MissingOrEmpty(n.address))

\* ---------------------------------------------------------------- C13

\* The normalizer of the specification: trim, then lower-case; a missing value
\* is the empty text.
RECURSIVE TrimLeft(_)
TrimLeft(t) == IF t # << >> /\ Head(t) = " " THEN TrimLeft(Tail(t)) ELSE t

RECURSIVE TrimRight(_)
TrimRight(t) ==
    IF t # << >> /\ t[Len(t)] = " " THEN TrimRight(SubSeq(t, 1, Len(t) - 1)) ELSE t

LowerChar(c) == CASE c = "N" -> "n" [] c = "M" -> "m" [] OTHER -> c

Normalize(t) == LET trimmed == TrimRight(TrimLeft(t)) IN [i \in DOMAIN trimmed |-> LowerChar(trimmed[i])]

NormalizeAttribute(o) == IF o = None THEN << >> ELSE Normalize(o[1])

\* Two attributes match: equal after normalization, and not empty.
NormalizedMatch(x, y) ==
    NormalizeAttribute(x) = NormalizeAttribute(y) /\ Len(NormalizeAttribute(x)) > 0

\* The interests two nodes share after normalization.
NormalizedCommon(a, b) ==
    ({Normalize(a.interests[i]) : i \in DOMAIN a.interests}
        \cap {Normalize(b.interests[i]) : i \in DOMAIN b.interests}) \ { << >> }

\* The fields on which a candidate matches the subject after normalization.
NormalizedFields(subject, n) ==
    {f \in ScalarFields : NormalizedMatch(subject[f], n[f])}
        \cup (IF NormalizedCommon(subject, n) # {} THEN {"interests"} ELSE {})

\* C13: in what recommend_people returns for a subject of the store, every
\* other node that matches the subject on some field after trim and
\* lower-case has an entry whose matched_on is exactly those fields and whose
\* matching interests are as many as the normalized interests they share.
C13_NormalizedComparison ==
    \A r \in RecProcs :
        (Answered(r) /\ NodesWithId(student_id[r]) # {}) =>
            \A n \in Range(nodes) :
                (n.id # None /\ n.id[1] # student_id[r] /\ NormalizedFields(SubjectOf(r), n) # {}) =>
                    \E i \in DOMAIN recommendations[r].students :
                        LET entry == recommendations[r].students[i]
                        IN  /\ entry.id = n.id[1]
                            /\ Range(entry.matched_on) = NormalizedFields(SubjectOf(r), n)
                            /\ IF entry.matching_interests = None
                               THEN NormalizedCommon(SubjectOf(r), n) = {}
                               ELSE Len(entry.matching_interests[1]) =
                                        Cardinality(NormalizedCommon(SubjectOf(r), n))

\* ---------------------------------------------------------------- C14

\* The entries of what r was answered that stand for node n.
EntriesOf(r, n) ==
    {i \in DOMAIN recommendations[r].students : recommendations[r].students[i].id = n.id[1]}

\* C14: in what recommend_people returns for a subject of the store, another
\* node has an entry iff it matches the subject on at least one of the five
\* dimensions, and a node matching on exactly one dimension has an entry
\* whose matched_on is that one field.
C14_OrInclusion ==
    \A r \in RecProcs :
        (Answered(r) /\ NodesWithId(student_id[r]) # {}) =>
            \A n \in Range(nodes) :
                (n.id # None /\ n.id[1] # student_id[r]) =>
                    /\ EntriesOf(r, n) # {} <=> NormalizedFields(SubjectOf(r), n) # {}
                    /\ \A f \in NormalizedFields(SubjectOf(r), n) :
                          NormalizedFields(SubjectOf(r), n) = {f} =>
                              \E i \in EntriesOf(r, n) :
                                  recommendations[r].students[i].matched_on = <<f>>

\* ---------------------------------------------------------------- C15

\* The score of a returned entry: its matched scalar fields plus its matching
\* interests.
ScoreOf(entry) ==
    Cardinality(Range(entry.matched_on) \cap ScalarFields)
        + (IF entry.matching_interests = None THEN 0 ELSE Len(entry.matching_interests[1]))

\* C15: what recommend_people returns is ordered by score descending, and
\* entries of equal score by id ascending.
C15_OrderedByScoreThenId ==
    \A r \in RecProcs :
        Answered(r) =>
            \A i, j \in DOMAIN recommendations[r].students :
                LET first == recommendations[r].students[i]
                    second == recommendations[r].students[j]
                IN  i < j =>
                        \/ ScoreOf(first) > ScoreOf(second)
                        \/ ScoreOf(first) = ScoreOf(second) /\ first.id <= second.id

\* ---------------------------------------------------------------- C16

\* The step is one of a recommend_people call (its arrival included).
RecMoves(r) == pc'[r] # pc[r]

\* C16 as stated: no step of recommend_people changes the nodes or the
\* relationships of the store, whatever the id and the mirror.
C16_ReadOnly ==
    [][ \A r \in RecProcs : RecMoves(r) => (nodes' = nodes /\ edges' = edges) ]_vars

\* C16, amended: no step of recommend_people changes a relationship or an
\* existing node; a call whose id is in the store goes from its lookup
\* straight to the scan, and only the reconciliation of a call whose lookup
\* found nothing adds nodes: one per step, for the mirror record at hand,
\* whose id no node carries.
C16_ReadOnlyButReconciliation ==
    [][ \A r \in RecProcs :
          RecMoves(r) =>
              /\ edges' = edges
              /\ \A i \in DOMAIN nodes : i \in DOMAIN nodes' /\ nodes'[i] = nodes[i]
              /\ (pc[r] = "lookup" /\ NodesWithId(student_id[r]) # {}) => pc'[r] = "scan"
              /\ pc[r] \in {"idle", "lookup", "load", "check", "retry", "scan"} => nodes' = nodes
              /\ nodes' # nodes =>
                    /\ Len(nodes') = Len(nodes) + 1
                    /\ nodes'[Len(nodes')].id = students[r][k[r]].id
                    /\ \A i \in DOMAIN nodes :
                          nodes[i].id = None \/ nodes[i].id # students[r][k[r]].id ]_vars

\* A call for an id no node carried has returned: reconciliation put the
\* student of the mirror into a store that already held relationships.
C16_Witness ==
    \E r \in RecProcs :
        /\ Answered(r)
        /\ student_id[r] = 5
        /\ NodesWithId(5) # {}
        /\ edges # << >>

\* ---------------------------------------------------------------- C17

\* The ids of the nodes, other than those carrying the id asked for, that
\* agree with the subject of r on some field, as lines 255-276 compare.
AgreeingIds(r) ==
    {n.id[1] : n \in {o \in Range(nodes) :
                        /\ o.id # None /\ o.id[1] # student_id[r]
                        /\ MatchedFields(CurrentRecord(SubjectOf(r)), o) # << >>}}

\* C17: a call whose id no node carries enters reconciliation from its
\* lookup; reconciliation ends in the second lookup, after which the call
\* never reconciles or looks up again; if the id is still absent at the
\* second lookup the call returns the empty list and no error, and otherwise
\* it scans for the node now carrying the id and returns, without error, the
\* students agreeing with that node.
C17_AbsentIdReconciledOnce ==
    [][ \A r \in RecProcs :
          RecMoves(r) =>
              /\ (pc[r] = "lookup" /\ NodesWithId(student_id[r]) = {}) => pc'[r] = "load"
              /\ pc[r] = "load" => pc'[r] \in {"check", "retry"}
              /\ pc[r] \in {"check", "create"} => pc'[r] \in {"check", "create", "retry"}
              /\ (pc[r] = "retry" /\ NodesWithId(student_id[r]) = {}) =>
                    /\ pc'[r] = "idle"
                    /\ recommendations'[r] = [status |-> "ok", students |-> << >>]
              /\ (pc[r] = "retry" /\ NodesWithId(student_id[r]) # {}) => pc'[r] = "scan"
              /\ pc[r] = "scan" =>
                    /\ pc'[r] = "idle"
                    /\ NodesWithId(student_id[r]) # {}
                    /\ recommendations'[r].status = "ok"
                    /\ {recommendations'[r].students[i].id :
                          i \in DOMAIN recommendations'[r].students} = AgreeingIds(r) ]_vars

\* ---------------------------------------------------------------- C18

\* The store holds the relationship of this kind for row r of the kind's query.
HasEdge(es, kind, r) ==
    \E i \in DOMAIN es : es[i].kind = kind /\ es[i].src = r[1] /\ es[i].dst = r[2]

\* C18: when save_student returns the new id, every pair made of a node
\* carrying that id and another node, and satisfying the predicate of a
\* kind, already has its relationship of that kind.
C18_OnboardMaterializes ==
    [][ \A p \in OnbProcs :
          (pc[p] = "write" /\ pc'[p] = "idle") =>
              \A kind \in Kinds :
                  \A r \in Rows(nodes', kind) :
                      (nodes'[r[1]].id = Some(next_id[p]) \/ nodes'[r[2]].id = Some(next_id[p]))
                          => HasEdge(edges', kind, r) ]_vars

\* ---------------------------------------------------------------- C19

\* Every pair satisfying the predicate of the kind has its relationship.
Materialized(ns, es, kind) == \A r \in Rows(ns, kind) : HasEdge(es, kind, r)

\* C19: when run_all ends, every enabled kind whose own create_* did not
\* raise has all of its relationships in the store.
C19_FailureDoesNotStopOtherKinds ==
    [][ \A b \in BackfillProcs :
          (pc[b] \in Kinds /\ pc'[b] = "idle") =>
              \A kind \in flags[b] \ raised'[b] : Materialized(nodes', edges', kind) ]_vars

\* ---------------------------------------------------------------- C20

\* C20: with onboardings and reconciliations running while run_all runs, no
\* step leaves two relationships of one kind on one pair of nodes, and when
\* a run_all with every kind enabled ends with no other call still running,
\* every pair of nodes satisfying the predicate of a kind has its
\* relationship of that kind.
C20_NoDuplicateNoLostEdge ==
    [][ /\ NoDuplicateEdges(edges')
        /\ \A b \in BackfillProcs :
              (pc[b] \in Kinds /\ pc'[b] = "idle" /\ flags[b] = Kinds /\ Quiet') =>
                  \A kind \in Kinds : Materialized(nodes', edges', kind) ]_vars

\* ---------------------------------------------------------------- C21

\* C21: no step of any operation removes a node or changes the id or an
\* attribute of a node: every node of the store is still there afterwards, at
\* its place and with the values it had.
C21_NodesNeverChange ==
    [][ \A i \in DOMAIN nodes : i \in DOMAIN nodes' /\ nodes'[i] = nodes[i] ]_vars

\* Reconciliation and onboarding have added nodes to the store found at
\* start-up and a backfill has written relationships between them.
C21_Witness ==
    /\ Quiet
    /\ calls.onboard >= 1 /\ calls.sync >= 1 /\ calls.backfill >= 1
    /\ Len(nodes) >= 3
    /\ nodes[1] = NewStudentNode(1, StA)
    /\ edges # << >>

\* ---------------------------------------------------------------- C22

\* The detail d shows the id and the attributes of node n.
ShowsNode(d, n) ==
    /\ n.id = Some(d.id)
    /\ n.name = Some(d.name)
    /\ d.address = n.address /\ d.college = n.college
    /\ d.board = n.board /\ d.stream = n.stream
    /\ d.interests = n.interests

\* C22: when get_student_by_id returns, the store having raised nothing: if
\* a node carries the id asked for, the answer is the id and the attributes of
\* such a node; if none does, the answer is not-found, and the mirror holds no
\* record with that id that reconciliation could have inserted.
C22_GetById ==
    [][ \A g \in GetProcs :
          (pc[g] # "idle" /\ pc'[g] = "idle" /\ ~store_failed'[g]) =>
              IF NodesWithId(student_id[g]) # {}
              THEN /\ student'[g].status = "ok"
                   /\ student'[g].student[1].id = student_id[g]
                   /\ \E n \in NodesWithId(student_id[g]) : ShowsNode(student'[g].student[1], n)
              ELSE /\ student'[g].status = "not_found"
                   /\ mirror.state = "ok" =>
                         \A i \in DOMAIN mirror.students :
                             mirror.students[i].id # Some(student_id[g]) ]_vars

\* ---------------------------------------------------------------- C23

\* The predicate of a kind under the normalized comparison, on nodes a and b.
NormalizedPredicate(kind, a, b) ==
    /\ a.id # None /\ b.id # None /\ a.id[1] < b.id[1]
    /\ IF kind = "SHARES_INTEREST" THEN NormalizedCommon(a, b) # {}
       ELSE NormalizedMatch(AttributeOf(kind, a), AttributeOf(kind, b))

\* C23: when a run_all with the five kinds enabled ends without having
\* raised, the relationships of each kind join exactly the pairs of nodes
\* that satisfy the kind's predicate under the normalized comparison.
C23_BackfillExact ==
    [][ \A b \in BackfillProcs :
          (pc[b] \in Kinds /\ pc'[b] = "idle" /\ flags[b] = Kinds /\ raised'[b] = {}) =>
              \A kind \in Kinds :
                  \A r \in (DOMAIN nodes') \X (DOMAIN nodes') :
                      HasEdge(edges', kind, r)
                          <=> NormalizedPredicate(kind, nodes'[r[1]], nodes'[r[2]]) ]_vars

\* ---------------------------------------------------------------- C24

\* The sequence has no element twice.
NoRepetition(s) == \A i, j \in DOMAIN s : s[i] = s[j] => i = j

\* C24: every SHARES_INTEREST relationship joins two nodes whose interests
\* intersect, and its common list holds each interest they share exactly
\* once and nothing else.
C24_CommonIsSharedSet ==
    \A i \in DOMAIN edges :
        edges[i].kind = "SHARES_INTEREST" =>
            LET shared == Range(nodes[edges[i].src].interests)
                              \cap Range(nodes[edges[i].dst].interests)
            IN  /\ shared # {}
                /\ Range(edges[i].common) = shared
                /\ NoRepetition(edges[i].common)

\* ---------------------------------------------------------------- C25

\* C25: in what recommend_people returns, the matching interests of an entry
\* hold no interest twice, whatever repetitions the stored lists have.
C25_SharedInterestCountedOnce ==
    \A r \in RecProcs :
        Answered(r) =>
            \A i \in DOMAIN recommendations[r].students :
                LET entry == recommendations[r].students[i]
                IN  entry.matching_interests # None => NoRepetition(entry.matching_interests[1])

\* ---------------------------------------------------------------- C26

\* The order in which matched_on lists the fields.
FieldOrder == <<"board", "stream", "college", "address", "interests">>

PlaceOf(f) == CHOOSE i \in DOMAIN FieldOrder : FieldOrder[i] = f

\* C26: in every entry recommend_people returns, same_address is set iff
\* address is in matched_on, interests is in matched_on iff
\* matching_interests is a non-empty list, matching_interests is absent
\* otherwise, and matched_on lists fields of the fixed order, in that order
\* and none twice.
C26_EntryConsistent ==
    \A r \in RecProcs :
        Answered(r) =>
            \A i \in DOMAIN recommendations[r].students :
                LET entry == recommendations[r].students[i]
                IN  /\ entry.same_address <=> "address" \in Range(entry.matched_on)
                    /\ "interests" \in Range(entry.matched_on) <=> entry.matching_interests # None
                    /\ entry.matching_interests # None => entry.matching_interests[1] # << >>
                    /\ Range(entry.matched_on) \subseteq Range(FieldOrder)
                    /\ \A x, y \in DOMAIN entry.matched_on :
                          x < y => PlaceOf(entry.matched_on[x]) < PlaceOf(entry.matched_on[y])

\* A list has been returned with an entry matched on address and interests
\* among its fields and an entry without any matching interest.
C26_Witness ==
    \E r \in RecProcs :
        /\ Answered(r)
        /\ \E i, j \in DOMAIN recommendations[r].students :
              /\ recommendations[r].students[i].same_address
              /\ Len(recommendations[r].students[i].matched_on) >= 3
              /\ recommendations[r].students[i].matching_interests # None
              /\ recommendations[r].students[j].matching_interests = None

\* ---------------------------------------------------------------- C27

\* C27: no entry of what recommend_people returns has the id asked for.
C27_SubjectExcluded ==
    \A r \in RecProcs :
        Answered(r) =>
            \A i \in DOMAIN recommendations[r].students :
                recommendations[r].students[i].id # student_id[r]

\* A list with entries has been returned for a subject that agrees with
\* itself on the five fields.
C27_Witness ==
    \E r \in RecProcs :
        /\ Answered(r)
        /\ recommendations[r].students # << >>
        /\ NodesWithId(student_id[r]) # {}
        /\ MatchedFields(CurrentRecord(SubjectOf(r)), SubjectOf(r)) = FieldOrder

\* ---------------------------------------------------------------- C28

\* C28: a call of recommend_people or get_student_by_id in which the store
\* raised is answered with an error: not with a list, a student or not-found.
C28_StoreFailureIsAnError ==
    /\ \A r \in RecProcs : store_failed[r] => recommendations[r].status = "error"
    /\ \A g \in GetProcs : store_failed[g] => student[g].status = "error"

\* The store has raised in a recommend_people that had already reconciled a
\* node into the store, and in a get_student_by_id.
C28_Witness ==
    /\ \A p \in ReaderProcs : store_failed[p] /\ pc[p] = "idle"
    /\ \E r \in RecProcs : NodesWithId(student_id[r]) # {} /\ calls.recommend = 1
    /\ calls.onboard = 0 /\ calls.sync = 0
    /\ \E i \in DOMAIN nodes : nodes[i].name = Some(<<"d">>)

\* ---------------------------------------------------------------- C29

\* The places of the mirror records that carry the id n.
MirrorPlaces(n) == {j \in DOMAIN mirror.students : mirror.students[j].id = Some(n)}

\* The part of C29 about a lost record alone: once every save_student call has
\* returned, each returned id still has a record in the mirror.
NoRecordLost ==
    (\A p \in OnbProcs : pc[p] = "idle") =>
        \A i \in DOMAIN returned : MirrorPlaces(returned[i]) # {}

\* C29: once every save_student call has returned, the mirror holds, for each
\* returned id, exactly one record with that id, and its attributes are those
\* of a node created in the store with that id.
C29_MirrorConverges ==
    (\A p \in OnbProcs : pc[p] = "idle") =>
        \A i \in DOMAIN returned :
            /\ mirror.state = "ok"
            /\ Cardinality(MirrorPlaces(returned[i])) = 1
            /\ \A j \in MirrorPlaces(returned[i]) :
                   \E m \in DOMAIN nodes : nodes[m] = NodeOfRecord(mirror.students[j])

\* ---------------------------------------------------------------- C30

\* C30: a write of _save_to_json keeps what the mirror held: every record that
\* was in the file is still there, unchanged and at its place, exactly one
\* record is added after them and none is replaced, and a file that cannot be
\* parsed is not overwritten.
C30_MirrorAppendOnly ==
    [][mirror' # mirror =>
          /\ mirror.state # "corrupt"
          /\ Len(mirror'.students) = Len(mirror.students) + 1
          /\ SubSeq(mirror'.students, 1, Len(mirror.students)) = mirror.students]_vars

\* ---------------------------------------------------------------- C31

\* The mirror record r has its node: a node carrying what r holds, or, for a
\* record the reconciliation skipped, a node that already carried its id.
Reconciled(r) ==
    \/ \E i \in DOMAIN nodes : Carries(nodes[i], r)
    \/ StudentExists(nodes, r.id)

\* The startup backfill has been started (its thread exists, runs or is over).
BackfillStarted == calls.backfill > 0

\* C31: at startup the constructor's reconciliation is over before the backfill
\* begins, so that from the start of the backfill on every mirror record has
\* its node in the store; the backfill is started once, by the startup event
\* and by nothing else; and when the application begins to serve, the backfill
\* it has just started has not run yet.
C31_StartupOrder ==
    /\ [](BackfillStarted =>
             /\ Serving
             /\ mirror.state = "ok" =>
                    \A j \in DOMAIN mirror.students : Reconciled(mirror.students[j]))
    /\ [](/\ calls.backfill <= 1
          /\ Serving <=> BackfillStarted)
    /\ [][(~Serving /\ Serving') =>
             /\ \A m \in MainProcs : Imported(m)
             /\ \A b \in BackfillProcs : pc[b] = "idle" /\ pc'[b] = "thread"
             /\ edges' = edges]_vars

\* The constructor has reconciled the record of d into the store, the
\* application serves and a save_student has already returned, while the
\* backfill started by the startup event has still to run its first query.
C31_Witness ==
    /\ Serving
    /\ \E i \in DOMAIN nodes : Carries(nodes[i], RecD2)
    /\ returned # << >>
    /\ calls.sync = 0
    /\ \E b \in BackfillProcs : pc[b] \in {"thread", "SAME_COLLEGE"}
    /\ edges = << >>

====
